---- MODULE Spec2Model ----
(***************************************************************************)
(* Model of pappyproxy/compress.py: the project archive codec.             *)
(*                                                                         *)
(* The class Compress picks a backend from the module global bz2 (bound by *)
(* the import probe) and packs or unpacks the project files of the current *)
(* directory into the single archive path of the session.                  *)
(*                                                                         *)
(* Reading of the source.  The method bodies are modelled statement by     *)
(* statement under Python 2 semantics, with the receiver taken as bound    *)
(* (the bodies use self and call each other, so the model reads a call of  *)
(* compress_project as running its body on the instance).  Inside the      *)
(* bodies nothing is repaired:                                             *)
(*   - "except e:" names a variable the module never binds, so when the    *)
(*     guarded block raises, matching the clause raises NameError and the  *)
(*     handler body never runs;                                            *)
(*   - PappyException is never imported into the module, so                *)
(*     "raise PappyException(...)" raises NameError;                       *)
(*   - a handle is closed only where the code calls close() or leaves a    *)
(*     with block; a later release by the runtime's finalizer is not part  *)
(*     of the call.                                                        *)
(* One action is one whole call.                                           *)
(***************************************************************************)
EXTENDS Integers, Sequences, FiniteSets, TLC

\* ---- bounds ----
MaxListLen == 2
MaxMembers == 3
NumContents == 2
MaxInitMembers == 2

\* ---- the project directory and the archive file ----
ConfigName == "config.json"
Names == {ConfigName, "data.db"}
Missing == 0
Contents == 1..NumContents

SeqsUpTo(S, n) == UNION {[1..k -> S] : k \in 0..n}

Member == [name : Names, data : Contents]
FileLists == SeqsUpTo(Names, MaxListLen)

\* what the file at the archive path is: no file, a zero-byte file, bytes
\* that are no container, a ZIP container, a tar container behind a bz2
\* filter, or a bare tar container
Formats == {"absent", "empty", "garbage", "zip", "tarbz2", "tar"}
Containers == {"zip", "tarbz2", "tar"}

NoMembers == << >>
Archive(f, ms) == [fmt |-> f, members |-> ms]

namelist(ms) == {ms[i].name : i \in DOMAIN ms}

\* the member a name resolves to: the last one written under that name
getinfo(ms, n) ==
  LET idx == {i \in DOMAIN ms : ms[i].name = n}
      last == CHOOSE i \in idx : \A j \in idx : j <= i
  IN ms[last]

\* ---- outcomes of a call ----
Returned == "return"
NameError == "NameError"
IOError == "IOError"
OSError == "OSError"
UnboundLocalError == "UnboundLocalError"
\* the three errors the code means to raise, by their messages
ArchiveWriteError == "PappyException: Error creating the zipfile"
ArchiveCorruptError == "PappyException: Project archive corrupted."
ArchiveContentError == "PappyException: Project archive contents corrupted."
Outcomes == {Returned, NameError, IOError, OSError, UnboundLocalError,
             ArchiveWriteError, ArchiveCorruptError, ArchiveContentError}

VARIABLES
  bz2,          \* the module global: TRUE when the import probe bound the module
  archive,      \* the file at sessconfig.archive
  files,        \* the project directory: name -> contents, or Missing
  op,           \* the entry point of the last call
  impl,         \* the implementation that call dispatched to
  file_list,    \* what get_project_files() returned to that call
  outcome,      \* how the call ended
  handle,       \* the archive handle of the call: "unopened", "open", "closed"
  closeUnbound, \* the call reached archive.close() with no handle bound
  extracted,    \* the names the call wrote into the directory, in order
  pre,          \* archive and directory as the call found them
  prev          \* the call before it: entry point, file list, directory

vars == <<bz2, archive, files, op, impl, file_list, outcome, handle,
          closeUnbound, extracted, pre, prev>>

\* the result of running one body
Result(a, fs, o, h, cu, ex) ==
  [archive |-> a, files |-> fs, outcome |-> o, handle |-> h,
   closeUnbound |-> cu, extracted |-> ex]

\* ---- zipfile / tarfile predicates ----
is_zipfile(a) == a.fmt = "zip"

\* tarfile.is_tarfile opens the file: a missing file raises IOError out of
\* it, anything that is no tar container gives False
is_tarfile_raises(a) == a.fmt = "absent"
is_tarfile(a) == a.fmt \in {"tarbz2", "tar"}

\* the number of leading paths of fl that can be read
RECURSIVE Readable(_, _, _)
Readable(fs, fl, i) ==
  IF i > Len(fl) \/ fs[fl[i]] = Missing THEN i - 1 ELSE Readable(fs, fl, i + 1)

Added(fs, fl, k) == [i \in 1..k |-> [name |-> fl[i], data |-> fs[fl[i]]]]

\* ---- Compress.zip_project ----
\* zipfile.ZipFile(path, mode="a"): the members the handle starts from.  A
\* ZIP container is continued; anything else (also a file of the other
\* format) is no ZIP file and a fresh container is started behind its bytes.
zip_open_members(a) == IF is_zipfile(a) THEN a.members ELSE NoMembers

\* the file as the open alone leaves it: a missing file is created
zip_open_file(a) == IF a.fmt = "absent" THEN Archive("empty", NoMembers) ELSE a

zip_project_results(a, fs, fl) ==
  LET k == Readable(fs, fl, 1)
      old == zip_open_members(a)
  IN IF k = Len(fl)
     THEN \* every zf.write succeeded and zf.close() wrote the directory.
          \* With nothing added to an existing ZIP file, close() leaves it.
          { Result(Archive("zip", old \o Added(fs, fl, k)), fs, Returned,
                   "closed", FALSE, << >>) }
     ELSE \* zf.write(fl[k+1]) raised; "except e" raises NameError and
          \* zf.close() is skipped.  The k members written before it went
          \* over the old directory: the file is as the open left it while
          \* they sit in the handle's buffer, and a container without a
          \* directory once they are flushed.
          { Result(zip_open_file(a), fs, NameError, "open", FALSE, << >>) }
          \cup
          (IF k >= 1
           THEN { Result(Archive("garbage", NoMembers), fs, NameError,
                         "open", FALSE, << >>) }
           ELSE {})

\* ---- Compress.unzip_project ----
RECURSIVE extractall(_, _, _)
extractall(ms, fs, i) ==
  IF i > Len(ms) THEN fs
  ELSE extractall(ms, [fs EXCEPT ![ms[i].name] = getinfo(ms, ms[i].name).data],
                  i + 1)

unzip_project_results(a, fs, fl) ==
  IF ~is_zipfile(a)
  THEN \* raise PappyException("Project archive corrupted."): the name is
       \* unbound
       { Result(a, fs, NameError, "unopened", FALSE, << >>) }
  ELSE IF ConfigName \notin namelist(a.members)
  THEN \* zf.extract raised KeyError; "except e" raises NameError
       { Result(a, fs, NameError, "open", FALSE, << >>) }
  ELSE \* the canary, then zf.extractall(); zf is never closed
       { Result(a,
                extractall(a.members,
                           [fs EXCEPT ![ConfigName] =
                                        getinfo(a.members, ConfigName).data],
                           1),
                Returned, "open", FALSE,
                <<ConfigName>> \o [i \in DOMAIN a.members |-> a.members[i].name]) }

\* ---- Compress.tar_project ----
tar_project_results(a, fs, fl) ==
  LET k == Readable(fs, fl, 1)
  IN IF is_tarfile_raises(a)
     THEN { Result(a, fs, IOError, "unopened", FALSE, << >>) }
     ELSE IF ~is_tarfile(a)
     THEN \* the if is skipped and archive.close() finds no local bound
          { Result(a, fs, UnboundLocalError, "unopened", TRUE, << >>) }
     ELSE IF k = Len(fl)
     THEN { Result(Archive("tarbz2", Added(fs, fl, k)), fs, Returned,
                   "closed", FALSE, << >>) }
     ELSE \* tarfile.open(path, 'w:bz2') truncated the file and
          \* archive.add(fl[k+1]) raised OSError, which nothing catches:
          \* the file keeps no bytes, or an unfinished bz2 stream
          { Result(Archive(f, NoMembers), fs, OSError, "open", FALSE, << >>) :
              f \in {"empty", "garbage"} }

\* ---- Compress.untar_project ----
\* the body of tar_project under the other name: it opens the archive for
\* writing
untar_project_as_tar(a, fs, fl) == tar_project_results(a, fs, fl)

untar_project_results(a, fs, fl) ==
  IF is_tarfile_raises(a)
  THEN { Result(a, fs, IOError, "unopened", FALSE, << >>) }
  ELSE IF ~is_tarfile(a)
  THEN \* no else branch: the method falls off its end
       { Result(a, fs, Returned, "unopened", FALSE, << >>) }
  ELSE IF a.fmt # "tarbz2"
  THEN \* tarfile.open(path, "r:bz2") raised ReadError inside the try
       { Result(a, fs, NameError, "unopened", FALSE, << >>) }
  ELSE IF fl = << >>
  THEN \* the loop body never runs and the with block closes the handle
       { Result(a, fs, Returned, "closed", FALSE, << >>) }
  ELSE \* archive.add on a handle opened for reading raises IOError; the
       \* with block closes the handle, "except e" raises NameError
       { Result(a, fs, NameError, "closed", FALSE, << >>) }

\* ---- Compress.compress_project / Compress.decompress_project ----
\* the test on bz2 the wrong way round
compress_impl_inverted(b) == IF b THEN "zip_project" ELSE "tar_project"

compress_impl(b) == IF b THEN "tar_project" ELSE "zip_project"
decompress_impl(b) == IF b THEN "untar_project" ELSE "unzip_project"

Fits(a, fl) == Len(a.members) + Len(fl) <= MaxMembers

Call(o, i, fl, r) ==
  /\ op' = o
  /\ impl' = i
  /\ file_list' = fl
  /\ archive' = r.archive
  /\ files' = r.files
  /\ outcome' = r.outcome
  /\ handle' = r.handle
  /\ closeUnbound' = r.closeUnbound
  /\ extracted' = r.extracted
  /\ pre' = [archive |-> archive, files |-> files]
  /\ prev' = [op |-> op, file_list |-> file_list, files |-> pre.files]
  /\ UNCHANGED bz2

zip_project ==
  \E fl \in FileLists :
    /\ Fits(archive, fl)
    /\ \E r \in zip_project_results(archive, files, fl) :
         Call("compress_project", "zip_project", fl, r)

tar_project ==
  \E fl \in FileLists :
    \E r \in tar_project_results(archive, files, fl) :
      Call("compress_project", "tar_project", fl, r)

unzip_project ==
  \E fl \in FileLists :
    \E r \in unzip_project_results(archive, files, fl) :
      Call("decompress_project", "unzip_project", fl, r)

untar_project ==
  \E fl \in FileLists :
    \E r \in untar_project_results(archive, files, fl) :
      Call("decompress_project", "untar_project", fl, r)

compress_project ==
  \/ compress_impl(bz2) = "tar_project" /\ tar_project
  \/ compress_impl(bz2) = "zip_project" /\ zip_project

decompress_project ==
  \/ decompress_impl(bz2) = "untar_project" /\ untar_project
  \/ decompress_impl(bz2) = "unzip_project" /\ unzip_project

\* ---- the state after import and construction ----
InitArchives ==
  {Archive(f, NoMembers) : f \in Formats \ Containers}
  \cup {Archive(f, ms) : f \in Containers, ms \in SeqsUpTo(Member, MaxInitMembers)}

Init ==
  /\ bz2 \in BOOLEAN
  /\ archive \in InitArchives
  /\ files \in [Names -> Contents \cup {Missing}]
  /\ op = "none"
  /\ impl = "none"
  /\ file_list = << >>
  /\ outcome = "none"
  /\ handle = "unopened"
  /\ closeUnbound = FALSE
  /\ extracted = << >>
  /\ pre = [archive |-> archive, files |-> files]
  /\ prev = [op |-> "none", file_list |-> << >>, files |-> files]

Next == compress_project \/ decompress_project

Spec == Init /\ [][Next]_vars

TypeOK ==
  /\ bz2 \in BOOLEAN
  /\ archive.fmt \in Formats
  /\ Len(archive.members) <= MaxMembers
  /\ archive.fmt \notin Containers => archive.members = NoMembers
  /\ files \in [Names -> Contents \cup {Missing}]
  /\ outcome \in Outcomes \cup {"none"}
  /\ handle \in {"unopened", "open", "closed"}
  /\ closeUnbound \in BOOLEAN

\* ---- vocabulary of the properties ----
Backend == IF bz2 THEN "TAR_BZ2" ELSE "ZIP"

\* a valid container of the selected backend
ValidFor(b, a) == IF b THEN a.fmt = "tarbz2" ELSE a.fmt = "zip"

AllReadable(fs, fl) == \A i \in DOMAIN fl : fs[fl[i]] # Missing
ListNames(fl) == {fl[i] : i \in DOMAIN fl}

\* the call reached the loop that adds members, and one add failed
AddFailed ==
  /\ op = "compress_project"
  /\ ~AllReadable(pre.files, file_list)
  /\ (impl = "zip_project" \/ is_tarfile(pre.archive))

\* C1: compress_project followed by decompress_project with the same list
\* of readable files returns normally and leaves every listed file in the
\* directory with the contents it had when it was packed.
C1_RoundTrip ==
  ( /\ op = "decompress_project"
    /\ prev.op = "compress_project"
    /\ prev.file_list = file_list
    /\ AllReadable(prev.files, file_list) )
  => ( /\ outcome = Returned
       /\ \A i \in DOMAIN file_list :
            files[file_list[i]] = prev.files[file_list[i]] )

\* C2: decompress_project on a file that is no valid container of the
\* selected backend ends in ArchiveCorruptError and writes no file.
C2_InvalidRejected ==
  (op = "decompress_project" /\ ~ValidFor(bz2, pre.archive))
  => (outcome = ArchiveCorruptError /\ files = pre.files /\ extracted = << >>)

\* C3: on the ZIP backend a valid ZIP archive without config.json makes
\* decompress_project fail with ArchiveContentError, no member extracted.
C3_MissingConfigContentError ==
  ( /\ impl = "unzip_project"
    /\ is_zipfile(pre.archive)
    /\ ConfigName \notin namelist(pre.archive.members) )
  => (outcome = ArchiveContentError /\ extracted = << >> /\ files = pre.files)

\* C4: on the ZIP backend compress_project on an existing archive keeps
\* every member the archive had before the call.
C4_ZipKeepsMembers ==
  (impl = "zip_project" /\ is_zipfile(pre.archive))
  => ( /\ is_zipfile(archive)
       /\ Len(archive.members) >= Len(pre.archive.members)
       /\ SubSeq(archive.members, 1, Len(pre.archive.members))
            = pre.archive.members )

\* C5: a compress_project that succeeds leaves a valid archive holding
\* exactly the files of file_list (on ZIP also the earlier members), and
\* from no archive at all compress_project of readable files succeeds.
C5_CompressExact ==
  /\ (op = "compress_project" /\ outcome = Returned)
     => ( /\ ValidFor(bz2, archive)
          /\ namelist(archive.members) =
               ListNames(file_list) \cup
               (IF bz2 THEN {} ELSE namelist(zip_open_members(pre.archive))) )
  /\ ( /\ op = "compress_project"
       /\ pre.archive.fmt = "absent"
       /\ AllReadable(pre.files, file_list) )
     => (outcome = Returned /\ ValidFor(bz2, archive))

\* C6: when a call has ended its archive handle is not open, and close was
\* not reached without a handle.
C6_HandlesClosed == handle # "open" /\ ~closeUnbound

\* C7: when adding a member fails, compress_project ends with
\* ArchiveWriteError.
C7_AddFailureWrapped == AddFailed => outcome = ArchiveWriteError

C9_RestoredOrSpecificError ==
  op = "decompress_project"
  => \/ outcome = Returned /\ AllReadable(files, file_list)
     \/ outcome \in {ArchiveCorruptError, ArchiveContentError}

\* C10: decompress_project leaves the archive file as it found it, whether
\* it returns or raises.
C10_DecompressReadsOnly == op = "decompress_project" => archive = pre.archive

C10_Witness ==
  /\ op = "decompress_project"
  /\ pre.archive.fmt = "tarbz2"
  /\ file_list # << >>
  /\ outcome # Returned

====
